---- MODULE Spec2Model ----
(***************************************************************************)
(* The peephole optimizer of evalfilter: the four passes over the bytecode *)
(* (optimizeMaths, optimizeJumps, removeNOPs, removeDeadCode), in the two  *)
(* versions the repository carries -- the methods of vm.VM, working on     *)
(* vm.bytecode, and the methods of evalfilter.Eval, working on             *)
(* e.instructions -- and the drivers optimizeBytecode / optimize that run  *)
(* them.  Bytecode is a sequence of bytes; offsets are 0-based as in Go.   *)
(***************************************************************************)
EXTENDS Integers, Sequences, FiniteSets, TLC

(***************************************************************************)
(* Bounds of the model.                                                    *)
(***************************************************************************)
\* Most instructions in a compiled program handed to the optimizer.
MaxInstr == 3
\* Most operators in an arithmetic expression compiled to postfix.
MaxOps == 2
\* Most instructions the virtual machine executes before a run counts as
\* not halting.
MaxSteps == 24
\* Most entries pushed on a Stack.
MaxDepth == 3
\* most bytes of a String, and most calls followed on one String
MaxBytes == 3
MaxCalls == 6

(***************************************************************************)
(* Opcodes.  The opcode table (package code) gives every opcode a number   *)
(* and a length: three bytes for an opcode with a big-endian 16-bit        *)
(* argument, one byte otherwise.                                           *)
(***************************************************************************)
OpConstant == 0
OpPush == 1
OpLookup == 2
OpSet == 3
OpCall == 4
OpJump == 5
OpJumpIfFalse == 6
OpTrue == 16
OpFalse == 17
OpAdd == 18
OpSub == 19
OpMul == 20
OpDiv == 21
OpEqual == 22
OpNotEqual == 23
OpLess == 24
OpReturn == 25
OpNop == 26

ArgOps == {OpConstant, OpPush, OpLookup, OpSet, OpCall, OpJump, OpJumpIfFalse}

Length(op) == IF op \in ArgOps THEN 3 ELSE 1

(***************************************************************************)
(* encoding/binary: big-endian 16-bit arguments.                           *)
(***************************************************************************)
\* binary.BigEndian.Uint16(code[off+1 : off+3]) for the instruction at off
Uint16(code, off) == code[off + 2] * 256 + code[off + 3]

\* binary.BigEndian.PutUint16(b, uint16(v))
PutUint16(v) == << ((v % 65536) \div 256), (v % 256) >>

\* code[off] = b   (0-based offset)
SetByte(code, off, b) == [code EXCEPT ![off + 1] = b]

\* code[from], ..., code[to-1] all set to OpNop
NopRange(code, from, to) ==
    [i \in 1..Len(code) |-> IF i - 1 >= from /\ i - 1 < to THEN OpNop ELSE code[i]]

\* the opcode at a 0-based offset
OpAt(code, off) == code[off + 1]

\* the argument the walker hands to its callback: the 16-bit argument of a
\* three-byte opcode, nil (-1 here) for a one-byte opcode
ArgAt(code, off) == IF Length(OpAt(code, off)) > 1 THEN Uint16(code, off) ELSE -1

(***************************************************************************)
(* WalkBytecode: the offsets the walker visits, from 0, each the previous  *)
(* one plus the length of the opcode found there.                          *)
(***************************************************************************)
RECURSIVE WalkFrom(_, _)
WalkFrom(code, ip) ==
    IF ip >= Len(code) THEN << >>
    ELSE << ip >> \o WalkFrom(code, ip + Length(OpAt(code, ip)))

WalkBytecode(code) == WalkFrom(code, 0)

Starts(code) == {WalkBytecode(code)[i] : i \in 1..Len(WalkBytecode(code))}

(***************************************************************************)
(* Pass 1, constant folding.                                               *)
(***************************************************************************)
\* What one call of a pass hands back: the bytecode it leaves, whether it
\* reports a change, and how it ended ("none", the error "divzero", or a Go
\* run-time "panic").
PassResult(code, changed, err) == [code |-> code, changed |-> changed, err |-> err]

\* FoldCompare writing OpTrue for equal constants under OpNotEqual too
FoldCompare_EqualOnly(code, offset, op, a, b) ==
    LET wiped == NopRange(NopRange(code, a.offset, a.offset + 3), b.offset, b.offset + 3)
    IN  SetByte(wiped, offset, IF a.value = b.value THEN OpTrue ELSE OpFalse)

\* OpEqual / OpNotEqual at offset with the constants a (last pushed) and b:
\* both pushes become three OpNop each, the comparison OpTrue or OpFalse.
FoldCompare(code, offset, op, a, b) ==
    LET wiped == NopRange(NopRange(code, a.offset, a.offset + 3), b.offset, b.offset + 3)
        holds == IF op = OpEqual THEN a.value = b.value ELSE a.value # b.value
    IN  SetByte(wiped, offset, IF holds THEN OpTrue ELSE OpFalse)

\* MathsResult with the operands of OpSub taken in the order of the window
MathsResult_SubSwapped(op, a, b) ==
    CASE op = OpMul -> a.value * b.value
      [] op = OpAdd -> a.value + b.value
      [] op = OpSub -> a.value - b.value
      [] op = OpDiv -> b.value \div a.value

\* result of OpMul / OpAdd / OpSub / OpDiv on the constants a (last pushed)
\* and b (pushed before it); the divisor a.value is not zero here
MathsResult(op, a, b) ==
    CASE op = OpMul -> a.value * b.value
      [] op = OpAdd -> a.value + b.value
      [] op = OpSub -> b.value - a.value
      [] op = OpDiv -> b.value \div a.value

\* FoldMaths writing the result into the push at b.offset, the first of the
\* two, and wiping the push at a.offset
FoldMaths_IntoFirstPush(code, offset, a, b, result) ==
    LET data == PutUint16(result)
        arg  == SetByte(SetByte(code, b.offset + 1, data[1]), b.offset + 2, data[2])
    IN  SetByte(NopRange(arg, a.offset, a.offset + 3), offset, OpNop)

\* the fold itself: the result replaces the argument of the push at a.offset,
\* the push at b.offset and the operator become OpNop
FoldMaths(code, offset, a, b, result) ==
    LET data == PutUint16(result)
        arg  == SetByte(SetByte(code, a.offset + 1, data[1]), a.offset + 2, data[2])
    IN  SetByte(NopRange(arg, b.offset, b.offset + 3), offset, OpNop)

\* MathsWalk keeping its window over an opcode that is neither OpPush nor
\* OpNop and over an operator it did not fold
RECURSIVE MathsWalk_KeepsWindow(_, _, _, _)
MathsWalk_KeepsWindow(code, ip, args, checked) ==
    IF ip >= Len(code) THEN PassResult(code, FALSE, "none")
    ELSE
      LET op   == OpAt(code, ip)
          next == ip + Length(op)
          n    == Len(args)
      IN  CASE op = OpPush ->
                 MathsWalk_KeepsWindow(code, next,
                           Append(args, [offset |-> ip, value |-> Uint16(code, ip)]),
                           checked)
            [] op \in {OpEqual, OpNotEqual} /\ n >= 2 ->
                 PassResult(FoldCompare(code, ip, op, args[n], args[n - 1]),
                            TRUE, "none")
            [] op \in {OpMul, OpAdd, OpSub, OpDiv} /\ n >= 2 ->
                 IF op = OpDiv /\ args[n].value = 0
                 THEN PassResult(code, FALSE, IF checked THEN "divzero" ELSE "panic")
                 ELSE LET result == MathsResult(op, args[n], args[n - 1])
                      IN  IF result >= 0 /\ result <= 65534
                          THEN PassResult(FoldMaths(code, ip, args[n], args[n - 1],
                                                    result),
                                          TRUE, "none")
                          ELSE MathsWalk_KeepsWindow(code, next, args, checked)
            [] OTHER -> MathsWalk_KeepsWindow(code, next, args, checked)

\* The walk of optimizeMaths from offset ip with the window args of constants
\* seen.  checked: the callback of the VM's version tests the divisor and
\* ends the walk with the error "attempted division by zero" (err =
\* "divzero"); optimizeMaths itself then returns (changed, nil), the error of
\* the walk is not passed on.  The Eval version divides, and Go panics on an
\* integer division by zero.
RECURSIVE MathsWalk(_, _, _, _)
MathsWalk(code, ip, args, checked) ==
    IF ip >= Len(code) THEN PassResult(code, FALSE, "none")
    ELSE
      LET op   == OpAt(code, ip)
          next == ip + Length(op)
          n    == Len(args)
      IN  CASE op = OpPush ->
                 MathsWalk(code, next,
                           Append(args, [offset |-> ip, value |-> Uint16(code, ip)]),
                           checked)
            [] op = OpNop -> MathsWalk(code, next, args, checked)
            [] op \in {OpEqual, OpNotEqual} ->
                 IF n >= 2
                 THEN PassResult(FoldCompare(code, ip, op, args[n], args[n - 1]),
                                 TRUE, "none")
                 ELSE MathsWalk(code, next, << >>, checked)
            [] op \in {OpMul, OpAdd, OpSub, OpDiv} ->
                 IF n >= 2
                 THEN IF op = OpDiv /\ args[n].value = 0
                      THEN PassResult(code, FALSE, IF checked THEN "divzero" ELSE "panic")
                      ELSE LET result == MathsResult(op, args[n], args[n - 1])
                           IN  IF result >= 0 /\ result <= 65534
                               THEN PassResult(FoldMaths(code, ip, args[n], args[n - 1],
                                                         result),
                                               TRUE, "none")
                               ELSE MathsWalk(code, next, << >>, checked)
                 ELSE MathsWalk(code, next, << >>, checked)
            [] OTHER -> MathsWalk(code, next, << >>, checked)

\* VM.optimizeMaths
optimizeMaths(code) == MathsWalk(code, 0, << >>, TRUE)

\* Eval.optimizeMaths
Eval_optimizeMaths(code) == MathsWalk(code, 0, << >>, FALSE)

(***************************************************************************)
(* Pass 2, jump simplification.                                            *)
(***************************************************************************)
\* JumpsWalk leaving the OpTrue before a conditional jump it removes
RECURSIVE JumpsWalk_KeepsTrue(_, _, _)
JumpsWalk_KeepsTrue(code, ip, prevOp) ==
    IF ip >= Len(code) THEN PassResult(code, FALSE, "none")
    ELSE
      LET op == OpAt(code, ip)
      IN  IF op = OpJumpIfFalse /\ prevOp = OpTrue
          THEN PassResult(NopRange(code, ip, ip + 3), TRUE, "none")
          ELSE IF op = OpJumpIfFalse /\ prevOp = OpFalse
          THEN PassResult(NopRange(code, ip - 1, Uint16(code, ip)), TRUE, "none")
          ELSE JumpsWalk_KeepsTrue(code, ip + Length(op), op)

\* VM.optimizeJumps: the walk from offset ip, prevOp the opcode walked before.
RECURSIVE JumpsWalk(_, _, _)
JumpsWalk(code, ip, prevOp) ==
    IF ip >= Len(code) THEN PassResult(code, FALSE, "none")
    ELSE
      LET op == OpAt(code, ip)
      IN  IF op = OpJumpIfFalse /\ prevOp = OpTrue
          THEN PassResult(NopRange(code, ip - 1, ip + 3), TRUE, "none")
          ELSE IF op = OpJumpIfFalse /\ prevOp = OpFalse
          THEN PassResult(NopRange(code, ip - 1, Uint16(code, ip)), TRUE, "none")
          ELSE JumpsWalk(code, ip + Length(op), op)

optimizeJumps(code) == JumpsWalk(code, 0, OpNop)

\* Eval.optimizeJumps: OpFalse; OpJumpIfFalse T becomes OpNop; OpJump T.
RECURSIVE Eval_JumpsWalk(_, _, _)
Eval_JumpsWalk(code, ip, prevOp) ==
    IF ip >= Len(code) THEN PassResult(code, FALSE, "none")
    ELSE
      LET op == OpAt(code, ip)
      IN  IF op = OpJumpIfFalse /\ prevOp = OpTrue
          THEN PassResult(NopRange(code, ip - 1, ip + 3), TRUE, "none")
          ELSE IF op = OpJumpIfFalse /\ prevOp = OpFalse
          THEN PassResult(SetByte(SetByte(code, ip - 1, OpNop), ip, OpJump), TRUE, "none")
          ELSE Eval_JumpsWalk(code, ip + Length(op), op)

Eval_optimizeJumps(code) == Eval_JumpsWalk(code, 0, OpNop)

(***************************************************************************)
(* Pass 3, NOP elision.                                                    *)
(***************************************************************************)
\* one instruction copied to the temporary program: opcode, then argument
Emit(code, ip) ==
    IF Length(OpAt(code, ip)) > 1
    THEN << OpAt(code, ip) >> \o PutUint16(Uint16(code, ip))
    ELSE << OpAt(code, ip) >>

\* NopWalk copying the OpNop instructions too
RECURSIVE NopWalk_KeepsNop(_, _, _, _)
NopWalk_KeepsNop(code, ip, tmp, rewrite) ==
    IF ip >= Len(code) THEN [tmp |-> tmp, rewrite |-> rewrite]
    ELSE NopWalk_KeepsNop(code, ip + Length(OpAt(code, ip)), tmp \o Emit(code, ip),
                          (ip :> Len(tmp)) @@ rewrite)

\* NopWalk with no map entry for the offset of an OpNop
RECURSIVE NopWalk_ForgetsNop(_, _, _, _)
NopWalk_ForgetsNop(code, ip, tmp, rewrite) ==
    IF ip >= Len(code) THEN [tmp |-> tmp, rewrite |-> rewrite]
    ELSE IF OpAt(code, ip) = OpNop
         THEN NopWalk_ForgetsNop(code, ip + 1, tmp, rewrite)
         ELSE NopWalk_ForgetsNop(code, ip + Length(OpAt(code, ip)),
                                 tmp \o Emit(code, ip), (ip :> Len(tmp)) @@ rewrite)

\* First loop of removeNOPs: the temporary program without the OpNop
\* instructions, and the map from every old offset walked, that of an OpNop
\* included, to the length of the temporary program when it was walked.
RECURSIVE NopWalk(_, _, _, _)
NopWalk(code, ip, tmp, rewrite) ==
    IF ip >= Len(code) THEN [tmp |-> tmp, rewrite |-> rewrite]
    ELSE
      LET op == OpAt(code, ip)
          rw == (ip :> Len(tmp)) @@ rewrite
      IN  IF op = OpNop
          THEN NopWalk(code, ip + 1, tmp, rw)
          ELSE NopWalk(code, ip + Length(op), tmp \o Emit(code, ip), rw)

\* PatchWalk that leaves every jump argument as it was
PatchWalk_NoRewrite(tmp, ip, rewrite) == [tmp |-> tmp, ok |-> TRUE]

\* PatchWalk sending the argument of every three-byte opcode through the map
RECURSIVE PatchWalk_AllArgs(_, _, _)
PatchWalk_AllArgs(tmp, ip, rewrite) ==
    IF ip >= Len(tmp) THEN [tmp |-> tmp, ok |-> TRUE]
    ELSE
      LET op == OpAt(tmp, ip)
      IN  IF Length(op) > 1
          THEN IF Uint16(tmp, ip) \in DOMAIN rewrite
               THEN LET b == PutUint16(rewrite[Uint16(tmp, ip)])
                    IN  PatchWalk_AllArgs(
                            SetByte(SetByte(tmp, ip + 1, b[1]), ip + 2, b[2]),
                            ip + 3, rewrite)
               ELSE [tmp |-> tmp, ok |-> FALSE]
          ELSE PatchWalk_AllArgs(tmp, ip + 1, rewrite)

\* Second loop of VM.removeNOPs: the jumps of tmp sent through the map; a
\* target without an entry ends the pass (ok = FALSE).
RECURSIVE PatchWalk(_, _, _)
PatchWalk(tmp, ip, rewrite) ==
    IF ip >= Len(tmp) THEN [tmp |-> tmp, ok |-> TRUE]
    ELSE
      LET op == OpAt(tmp, ip)
      IN  IF op \in {OpJump, OpJumpIfFalse}
          THEN IF Uint16(tmp, ip) \in DOMAIN rewrite
               THEN LET b == PutUint16(rewrite[Uint16(tmp, ip)])
                    IN  PatchWalk(SetByte(SetByte(tmp, ip + 1, b[1]), ip + 2, b[2]),
                                  ip + 3, rewrite)
               ELSE [tmp |-> tmp, ok |-> FALSE]
          ELSE PatchWalk(tmp, ip + Length(op), rewrite)

\* VM.removeNOPs
removeNOPs(code) ==
    LET w == NopWalk(code, 0, << >>, << >>)
        p == PatchWalk(w.tmp, 0, w.rewrite)
    IN  IF Len(code) = Len(w.tmp) THEN code
        ELSE IF p.ok THEN p.tmp ELSE code

\* Second loop of Eval.removeNOPs: a target without an entry reads the zero
\* value of the map, 0.
RECURSIVE Eval_PatchWalk(_, _, _)
Eval_PatchWalk(tmp, ip, rewrite) ==
    IF ip >= Len(tmp) THEN tmp
    ELSE
      LET op == OpAt(tmp, ip)
      IN  IF op \in {OpJump, OpJumpIfFalse}
          THEN LET old    == Uint16(tmp, ip)
                   newDst == IF old \in DOMAIN rewrite THEN rewrite[old] ELSE 0
                   b      == PutUint16(newDst)
               IN  Eval_PatchWalk(SetByte(SetByte(tmp, ip + 1, b[1]), ip + 2, b[2]),
                                  ip + 3, rewrite)
          ELSE Eval_PatchWalk(tmp, ip + Length(op), rewrite)

\* Eval.removeNOPs
Eval_removeNOPs(code) ==
    LET w == NopWalk(code, 0, << >>, << >>)
    IN  Eval_PatchWalk(w.tmp, 0, w.rewrite)

(***************************************************************************)
(* Pass 4, dead-code truncation.                                           *)
(***************************************************************************)
\* DeadWalk walking on over a jump
RECURSIVE DeadWalk_IgnoresJumps(_, _, _)
DeadWalk_IgnoresJumps(code, ip, tmp) ==
    IF ip >= Len(code) THEN [tmp |-> tmp, changed |-> FALSE]
    ELSE IF OpAt(code, ip) = OpReturn
         THEN [tmp |-> Append(tmp, OpReturn), changed |-> TRUE]
         ELSE DeadWalk_IgnoresJumps(code, ip + Length(OpAt(code, ip)),
                                    tmp \o Emit(code, ip))

\* The walk of VM.removeDeadCode: a jump stops it with nothing to install,
\* the first OpReturn stops it with the prefix to install.
RECURSIVE DeadWalk(_, _, _)
DeadWalk(code, ip, tmp) ==
    IF ip >= Len(code) THEN [tmp |-> tmp, changed |-> FALSE]
    ELSE
      LET op == OpAt(code, ip)
      IN  IF op \in {OpJumpIfFalse, OpJump} THEN [tmp |-> tmp, changed |-> FALSE]
          ELSE IF op = OpReturn THEN [tmp |-> Append(tmp, OpReturn), changed |-> TRUE]
          ELSE DeadWalk(code, ip + Length(op), tmp \o Emit(code, ip))

\* VM.removeDeadCode
removeDeadCode(code) ==
    LET w == DeadWalk(code, 0, << >>)
    IN  IF w.changed THEN w.tmp ELSE code

\* The walk of Eval.removeDeadCode: a jump returns from the function (keep
\* = FALSE: nothing is installed), the first OpReturn or the end of the
\* bytecode ends the loop and the copy made so far is installed.
RECURSIVE Eval_DeadWalk(_, _, _)
Eval_DeadWalk(code, ip, tmp) ==
    IF ip >= Len(code) THEN [tmp |-> tmp, keep |-> TRUE]
    ELSE
      LET op == OpAt(code, ip)
      IN  IF op \in {OpJumpIfFalse, OpJump} THEN [tmp |-> tmp, keep |-> FALSE]
          ELSE IF op = OpReturn THEN [tmp |-> Append(tmp, OpReturn), keep |-> TRUE]
          ELSE Eval_DeadWalk(code, ip + Length(op), tmp \o Emit(code, ip))

\* Eval.removeDeadCode
Eval_removeDeadCode(code) ==
    LET w == Eval_DeadWalk(code, 0, << >>)
    IN  IF w.keep THEN w.tmp ELSE code


(***************************************************************************)
(* The virtual machine: one run of a bytecode program against a host       *)
(* object.  Values are Integer, Bool and Void; a Bool carries 1 or 0.      *)
(***************************************************************************)
Integer(n) == [t |-> "int", v |-> n]
Bool(b) == [t |-> "bool", v |-> IF b THEN 1 ELSE 0]
Void == [t |-> "void", v |-> 0]

\* truthy(): integer > 0; bool: itself; void: false
True(val) == IF val.t = "void" THEN FALSE ELSE val.v > 0

Returned(val) == [kind |-> "value", val |-> val]
RuntimeError == [kind |-> "error", val |-> Void]
NoHalt == [kind |-> "nohalt", val |-> Void]

\* The fetch-dispatch loop from instruction pointer ip with the stack st;
\* consts is the constants list, host the value the host object gives for a
\* looked-up name, fuel the instructions still allowed.
RECURSIVE Run(_, _, _, _, _, _)
Run(code, consts, host, ip, st, fuel) ==
    IF ip >= Len(code) THEN Returned(Void)
    ELSE IF fuel = 0 THEN NoHalt
    ELSE
      LET op   == OpAt(code, ip)
          next == ip + Length(op)
          n    == Len(st)
          arg  == Uint16(code, ip)
      IN  CASE op = OpPush -> Run(code, consts, host, next, Append(st, Integer(arg)), fuel - 1)
            [] op = OpConstant ->
                 IF arg < Len(consts)
                 THEN Run(code, consts, host, next, Append(st, consts[arg + 1]), fuel - 1)
                 ELSE RuntimeError
            [] op = OpLookup ->
                 IF arg < Len(consts)
                 THEN Run(code, consts, host, next, Append(st, host), fuel - 1)
                 ELSE RuntimeError
            [] op = OpTrue -> Run(code, consts, host, next, Append(st, Bool(TRUE)), fuel - 1)
            [] op = OpFalse -> Run(code, consts, host, next, Append(st, Bool(FALSE)), fuel - 1)
            [] op = OpNop -> Run(code, consts, host, next, st, fuel - 1)
            [] op \in {OpAdd, OpSub, OpMul, OpDiv} ->
                 IF n < 2 THEN RuntimeError
                 ELSE LET y == st[n]
                          x == st[n - 1]
                      IN  IF x.t # "int" \/ y.t # "int" THEN RuntimeError
                          ELSE IF op = OpDiv /\ y.v = 0 THEN RuntimeError
                          ELSE LET r == CASE op = OpAdd -> x.v + y.v
                                          [] op = OpSub -> x.v - y.v
                                          [] op = OpMul -> x.v * y.v
                                          [] op = OpDiv -> x.v \div y.v
                               IN  Run(code, consts, host, next,
                                       Append(SubSeq(st, 1, n - 2), Integer(r)), fuel - 1)
            [] op \in {OpEqual, OpNotEqual} ->
                 IF n < 2 THEN RuntimeError
                 ELSE LET same == st[n] = st[n - 1]
                      IN  Run(code, consts, host, next,
                              Append(SubSeq(st, 1, n - 2),
                                     Bool(IF op = OpEqual THEN same ELSE ~same)),
                              fuel - 1)
            [] op = OpJump -> Run(code, consts, host, arg, st, fuel - 1)
            [] op = OpJumpIfFalse ->
                 IF n < 1 THEN RuntimeError
                 ELSE Run(code, consts, host, IF True(st[n]) THEN next ELSE arg,
                          SubSeq(st, 1, n - 1), fuel - 1)
            [] op = OpReturn -> IF n < 1 THEN RuntimeError ELSE Returned(st[n])
            [] OTHER -> RuntimeError

\* vm.Run(obj): the outcome of the program on a host object
Exec(code, consts, host) == Run(code, consts, host, 0, << >>, MaxSteps)

(***************************************************************************)
(* Eval.Execute and Eval.Run, on what the machine handed back: out is the  *)
(* machine's (object, error), the error not nil when out.kind = "error".   *)
(* A machine that does not halt never returns, and neither do they: the    *)
(* result stays Pending.                                                   *)
(***************************************************************************)
Null == [t |-> "null", v |-> 0]

Pending == [val |-> Void, err |-> "pending"]

\* Go's nil where an object is expected
Nil == [t |-> "nil", v |-> 0]

\* Eval.Execute: (&object.Null{}, err) on an error, (out, nil) otherwise
Eval_Execute(out) ==
    CASE out.kind = "error" -> [val |-> Null, err |-> "error"]
      [] out.kind = "value" -> [val |-> out.val, err |-> "nil"]
      [] OTHER -> Pending

\* Eval.Run ending with (true, nil) whatever Execute returned
Eval_Run_AlwaysTrue(r) ==
    IF r.err = "pending" THEN [ok |-> FALSE, err |-> "pending"]
    ELSE [ok |-> TRUE, err |-> "nil"]

\* Eval.Run on what Execute returned: (false, err) on an error, otherwise
\* (out.True(), nil)
Eval_Run(r) ==
    CASE r.err = "error" -> [ok |-> FALSE, err |-> r.err]
      [] r.err = "nil" -> [ok |-> True(r.val), err |-> "nil"]
      [] OTHER -> [ok |-> FALSE, err |-> "pending"]


(***************************************************************************)
(* The programs handed to the optimizer: what the compiler can emit, as a  *)
(* sequence of instructions; a jump names the instruction it targets, the  *)
(* index one past the last standing for the end of the program.            *)
(***************************************************************************)
PushVals == {0, 2, 300}
OneByteOps == {OpTrue, OpFalse, OpAdd, OpSub, OpMul, OpDiv, OpEqual, OpNotEqual,
               OpReturn, OpNop}
Hosts == {Integer(0), Integer(2)}
Engines == {"vm", "eval"}

PlainInstrs ==
    {<< op, 0 >> : op \in OneByteOps} \cup {<< OpPush, v >> : v \in PushVals}
        \cup {<< OpLookup, 0 >>, << OpConstant, 1 >>}

JumpInstrs(n) == {OpJump, OpJumpIfFalse} \X (1..(n + 1))

Programs == UNION {[1..n -> PlainInstrs \cup JumpInstrs(n)] : n \in 0..MaxInstr}

\* offset of the k-th instruction of a program (k = Len + 1: its length)
RECURSIVE OffsetOf(_, _)
OffsetOf(prog, k) ==
    IF k <= 1 THEN 0 ELSE OffsetOf(prog, k - 1) + Length(prog[k - 1][1])

\* the compiler's emit: opcode byte, then the big-endian argument
RECURSIVE Encode(_, _)
Encode(prog, k) ==
    IF k > Len(prog) THEN << >>
    ELSE LET op  == prog[k][1]
             arg == IF op \in {OpJump, OpJumpIfFalse}
                    THEN OffsetOf(prog, prog[k][2]) ELSE prog[k][2]
         IN  (IF Length(op) > 1 THEN << op >> \o PutUint16(arg) ELSE << op >>)
                 \o Encode(prog, k + 1)

\* What the compiler emits for `if (cond) { A } else { B }` and the code
\* after it: cond; OpJumpIfFalse ELSE; A; OpJump END; ELSE: B; END: tail.
Conds ==
    {<< << OpLookup, 0 >> >>, << << OpTrue, 0 >> >>, << << OpFalse, 0 >> >>,
     << << OpPush, 2 >>, << OpPush, 2 >>, << OpEqual, 0 >> >>}

Blocks ==
    {<< >>, << << OpPush, 0 >> >>, << << OpPush, 2 >> >>,
     << << OpPush, 2 >>, << OpReturn, 0 >> >>}

Tails ==
    {<< >>, << << OpReturn, 0 >> >>,
     << << OpPush, 2 >>, << OpAdd, 0 >>, << OpReturn, 0 >> >>}

CompileIf(c, a, b, t) ==
    c \o << << OpJumpIfFalse, Len(c) + Len(a) + 3 >> >> \o a
      \o << << OpJump, Len(c) + Len(a) + Len(b) + 3 >> >> \o b \o t

IfPrograms ==
    {CompileIf(c, a, b, t) : c \in Conds, a \in Blocks, b \in Blocks, t \in Tails}

(***************************************************************************)
(* State.                                                                  *)
(***************************************************************************)
VARIABLES
    engine,     \* whose optimizer runs: the VM's (on vm.bytecode) or Eval's
                \* (on e.instructions)
    bytecode,   \* vm.bytecode / e.instructions
    constants,  \* the constants list
    pc,         \* where Prepare and the optimizer stand
    optimizing, \* Prepare's optimize flag (FALSE: NoOptimize was passed)
    changed,    \* what the last optimizeMaths / optimizeJumps call reported
    mathsErr,   \* how the walk of the last optimizeMaths call ended
    sz,         \* optimizeBytecode's sz: length of the bytecode when it began
    changes,    \* Eval.optimize's changes counter
    ret,        \* what the optimizer returned
    run,        \* 1 in the first run of the optimizer, 2 in a second run
    first,      \* the bytecode the first run left
    orig,       \* the compiled program
    prev,       \* the bytecode before the last call of a pass
    last,       \* the pass called last
    outcome,    \* what the last Execute returned
    expr,       \* the arithmetic expression the program was compiled from
    execRet,    \* what the last Eval.Execute returned: (object, error)
    runRet,     \* what Eval.Run returned, when it was the last call made
    walk,       \* the WalkBytecode call in progress: ip, the calls made to the
                \* visitor, and what the walker returned
    entries,    \* Stack.entries
    popRet,     \* what Stack.Pop returned, when it was the last call made
    stackCall,  \* the last call made on the Stack: the method, the value handed
                \* to Push, and what Size, Empty or Export returned
    pushed,     \* calls of Push since the Stack was new or last cleared
    popped,     \* calls of Pop that returned a value since then
    str,        \* an object.String: its Value (bytes) and its offset
    nextRet,    \* the calls made on the String, in order, with what each returned
    strs,       \* two object.String values: Value (bytes) and offset of each
    loops       \* two foreach loops: the String each walks, where it stands in
                \* Reset or Next, its copy of the offset, and what it was handed

retVars == << execRet, runRet >>
stackVars == << entries, popRet, stackCall, pushed, popped >>
loopVars == << strs, loops >>
strVars == << str, nextRet, loopVars >>
apiVars == << retVars, walk, stackVars, strVars >>

vars == << engine, bytecode, constants, pc, optimizing, changed, mathsErr, sz,
           changes, ret, run, first, orig, prev, last, outcome, expr, apiVars >>

\* the constants of the compiled script: a field name and an integer
Constants == << [t |-> "name", v |-> 0], Integer(70000) >>

None == [kind |-> "none", val |-> Void]

\* nothing called yet on the engine, no walk begun, a new Stack, an empty
\* String, no foreach loop entered
ApiInit ==
    /\ execRet = Pending
    /\ runRet = [ok |-> FALSE, err |-> "pending"]
    /\ walk = [state |-> "idle", ip |-> 0, visits |-> << >>, err |-> "nil"]
    /\ entries = << >>
    /\ popRet = Pending
    /\ stackCall = [op |-> "New", arg |-> Nil, size |-> 0, empty |-> FALSE,
                    export |-> << >>]
    /\ pushed = 0
    /\ popped = 0
    /\ str = [Value |-> << >>, offset |-> 0]
    /\ nextRet = << >>
    /\ strs = [o \in 1..2 |-> [Value |-> << >>, offset |-> 0]]
    /\ loops = [i \in {"a", "b"} |-> [obj |-> 1, pc |-> "idle", tmp |-> 0,
                                        val |-> Nil, seen |-> << >>]]

InitWith(code, e) ==
    /\ engine \in Engines
    /\ expr = e
    /\ bytecode = code
    /\ constants = Constants
    /\ pc = "compiled"
    /\ optimizing = TRUE
    /\ changed = FALSE
    /\ mathsErr = "none"
    /\ sz = 0
    /\ changes = 0
    /\ ret = 0
    /\ run = 1
    /\ first = << >>
    /\ orig = code
    /\ prev = code
    /\ last = "none"
    /\ outcome = None
    /\ ApiInit

Init ==
    \/ \E prog \in IfPrograms : InitWith(Encode(prog, 1), << >>)
    \/ \E prog \in Programs : InitWith(Encode(prog, 1), << >>)

(***************************************************************************)
(* The passes of the engine in charge.                                     *)
(***************************************************************************)
Maths(e, code) == IF e = "vm" THEN optimizeMaths(code) ELSE Eval_optimizeMaths(code)
Jumps(e, code) == IF e = "vm" THEN optimizeJumps(code) ELSE Eval_optimizeJumps(code)
NOPs(e, code) == IF e = "vm" THEN removeNOPs(code) ELSE Eval_removeNOPs(code)
DeadCode(e, code) == IF e = "vm" THEN removeDeadCode(code) ELSE Eval_removeDeadCode(code)

(***************************************************************************)
(* Prepare and the optimizer, one action per call and per loop test.       *)
(***************************************************************************)
\* Prepare(flags): with NoOptimize the compiled program goes to the machine
\* as it is, otherwise the optimizer starts.
Prepare(opt) ==
    /\ pc = "compiled"
    /\ optimizing' = opt
    /\ pc' = IF opt THEN "maths" ELSE "ready"
    /\ sz' = Len(bytecode)
    /\ UNCHANGED << engine, bytecode, constants, changed, mathsErr, changes, ret,
                    run, first, orig, prev, last, outcome, expr >>
    /\ UNCHANGED apiVars

\* changed, err := optimizeMaths()
CallMaths ==
    /\ pc = "maths"
    /\ LET r == Maths(engine, bytecode)
       IN  /\ bytecode' = r.code
           /\ changed' = r.changed
           /\ mathsErr' = r.err
           /\ pc' = IF r.err = "panic" THEN "panicked" ELSE "mathsLoop"
    /\ prev' = bytecode
    /\ last' = "maths"
    /\ UNCHANGED << engine, constants, optimizing, sz, changes, ret, run, first,
                    orig, outcome, expr >>
    /\ UNCHANGED apiVars

\* the test of the maths loop: again while a change was reported (a walk
\* ended by the division-by-zero error reports no change, and the loop ends)
LoopMaths ==
    /\ pc = "mathsLoop"
    /\ IF changed /\ mathsErr = "none"
       THEN /\ pc' = "maths"
            /\ changes' = IF engine = "eval" THEN changes + 1 ELSE changes
       ELSE /\ pc' = "jumps"
            /\ changes' = changes
    /\ UNCHANGED << engine, bytecode, constants, optimizing, changed, mathsErr, sz,
                    ret, run, first, orig, prev, last, outcome, expr >>
    /\ UNCHANGED apiVars

\* optimizeJumps()
CallJumps ==
    /\ pc = "jumps"
    /\ LET r == Jumps(engine, bytecode)
       IN  /\ bytecode' = r.code
           /\ changed' = r.changed
    /\ pc' = "jumpsLoop"
    /\ prev' = bytecode
    /\ last' = "jumps"
    /\ UNCHANGED << engine, constants, optimizing, mathsErr, sz, changes, ret, run,
                    first, orig, outcome, expr >>
    /\ UNCHANGED apiVars

\* the test of the jumps loop: again while a change was reported
LoopJumps ==
    /\ pc = "jumpsLoop"
    /\ IF changed
       THEN /\ pc' = "jumps"
            /\ changes' = IF engine = "eval" THEN changes + 1 ELSE changes
       ELSE /\ pc' = "nops"
            /\ changes' = changes
    /\ UNCHANGED << engine, bytecode, constants, optimizing, changed, mathsErr, sz,
                    ret, run, first, orig, prev, last, outcome, expr >>
    /\ UNCHANGED apiVars

\* removeNOPs()
CallRemoveNOPs ==
    /\ pc = "nops"
    /\ bytecode' = NOPs(engine, bytecode)
    /\ pc' = "dead"
    /\ prev' = bytecode
    /\ last' = "nops"
    /\ UNCHANGED << engine, constants, optimizing, changed, mathsErr, sz, changes,
                    ret, run, first, orig, outcome, expr >>
    /\ UNCHANGED apiVars

\* removeDeadCode(), and the optimizer returns: sz - len(vm.bytecode) in the
\* VM, changes in Eval
CallRemoveDeadCode ==
    /\ pc = "dead"
    /\ bytecode' = DeadCode(engine, bytecode)
    /\ ret' = IF engine = "vm" THEN sz - Len(bytecode') ELSE changes
    /\ pc' = "ready"
    /\ prev' = bytecode
    /\ last' = "dead"
    /\ UNCHANGED << engine, constants, optimizing, changed, mathsErr, sz, changes,
                    run, first, orig, outcome, expr >>
    /\ UNCHANGED apiVars

\* the optimizer run once more, on the bytecode it left
Reoptimize ==
    /\ pc = "ready"
    /\ optimizing
    /\ run = 1
    /\ outcome = None
    /\ run' = 2
    /\ first' = bytecode
    /\ sz' = Len(bytecode)
    /\ changes' = 0
    /\ pc' = "maths"
    /\ UNCHANGED << engine, bytecode, constants, optimizing, changed, mathsErr, ret,
                    orig, prev, last, outcome, expr >>
    /\ UNCHANGED apiVars

\* Execute(obj) on the prepared machine
Execute(host) ==
    /\ pc = "ready"
    /\ run = 1
    /\ outcome' = Exec(bytecode, constants, host)
    /\ execRet' = Eval_Execute(outcome')
    /\ runRet' = [ok |-> FALSE, err |-> "pending"]
    /\ UNCHANGED << engine, bytecode, constants, pc, optimizing, changed, mathsErr,
                    sz, changes, ret, run, first, orig, prev, last, expr >>
    /\ UNCHANGED << walk, stackVars, strVars >>

\* Run(obj) on the prepared machine: Execute, then the verdict
RunFilter(host) ==
    /\ pc = "ready"
    /\ run = 1
    /\ outcome' = Exec(bytecode, constants, host)
    /\ execRet' = Eval_Execute(outcome')
    /\ runRet' = Eval_Run(execRet')
    /\ UNCHANGED << engine, bytecode, constants, pc, optimizing, changed, mathsErr,
                    sz, changes, ret, run, first, orig, prev, last, expr >>
    /\ UNCHANGED << walk, stackVars, strVars >>

\* one pass called on its own on the compiled program
ApplyPass(p) ==
    /\ pc = "compiled"
    /\ LET r == CASE p = "maths" -> Maths(engine, bytecode)
                  [] p = "jumps" -> Jumps(engine, bytecode)
                  [] p = "nops" -> PassResult(NOPs(engine, bytecode), FALSE, "none")
                  [] p = "dead" -> PassResult(DeadCode(engine, bytecode), FALSE, "none")
       IN  /\ bytecode' = r.code
           /\ changed' = r.changed
           /\ mathsErr' = r.err
    /\ pc' = "applied"
    /\ prev' = bytecode
    /\ last' = p
    /\ UNCHANGED << engine, constants, optimizing, sz, changes, ret, run, first,
                    orig, outcome, expr >>
    /\ UNCHANGED apiVars

Next ==
    \/ \E opt \in BOOLEAN : Prepare(opt)
    \/ CallMaths
    \/ LoopMaths
    \/ CallJumps
    \/ LoopJumps
    \/ CallRemoveNOPs
    \/ CallRemoveDeadCode
    \/ Reoptimize
    \/ \E host \in Hosts : Execute(host)
    \/ \E p \in {"maths", "jumps", "nops", "dead"} : ApplyPass(p)

Spec == Init /\ [][Next]_vars

\* The optimizer alone, on the programs made of constants, comparisons,
\* additions and jumps.
LoopInstrs ==
    {<< op, 0 >> : op \in {OpTrue, OpFalse, OpAdd, OpEqual, OpReturn, OpNop}}
        \cup {<< OpPush, 2 >>}

LoopPrograms == UNION {[1..n -> LoopInstrs \cup JumpInstrs(n)] : n \in 0..MaxInstr}

LoopInit == \E prog \in LoopPrograms : InitWith(Encode(prog, 1), << >>)

OptimizerNext ==
    \/ \E opt \in BOOLEAN : Prepare(opt)
    \/ CallMaths
    \/ LoopMaths
    \/ CallJumps
    \/ LoopJumps
    \/ CallRemoveNOPs
    \/ CallRemoveDeadCode

(***************************************************************************)
(* Arithmetic expressions and their compilation: left operand, right       *)
(* operand, operator (postfix), every literal an OpPush.                   *)
(***************************************************************************)
ArithVals == {1, 2, 3, 300}
ArithOps == {OpAdd, OpSub, OpMul, OpDiv}

\* the expressions with exactly n operators: << OpPush, v >> or << op, l, r >>
RECURSIVE ExprsOf(_)
ExprsOf(n) ==
    IF n = 0 THEN {OpPush} \X ArithVals
    ELSE UNION {ArithOps \X ExprsOf(i) \X ExprsOf(n - 1 - i) : i \in 0..(n - 1)}

Exprs == UNION {ExprsOf(n) : n \in 0..MaxOps}

RECURSIVE Postfix(_)
Postfix(e) ==
    IF e[1] = OpPush THEN << OpPush >> \o PutUint16(e[2])
    ELSE Postfix(e[2]) \o Postfix(e[3]) \o << e[1] >>

\* `return e;`
CompileReturn(e) == Postfix(e) \o << OpReturn >>

ArithInit == \E e \in Exprs : InitWith(CompileReturn(e), e)

ArithSpec == ArithInit /\ [][OptimizerNext]_vars

(***************************************************************************)
(* Eval.WalkBytecode(callback), one action per turn of its loop.  w is the *)
(* walk so far: ip, the calls made to the callback, each with what the     *)
(* callback answered (err, ret), and the error the walker returned.        *)
(***************************************************************************)
\* WalkVisit going on to the next instruction whatever the callback answered
WalkVisit_IgnoresAnswer(code, w, cerr, cret) ==
    LET op == OpAt(code, w.ip)
        v  == [offset |-> w.ip, op |-> op,
               arg |-> IF Length(op) > 1 THEN Uint16(code, w.ip) ELSE -1,
               err |-> cerr, ret |-> cret]
    IN  [state |-> "walking", ip |-> w.ip + Length(op),
         visits |-> Append(w.visits, v), err |-> "nil"]

\* One turn of the loop at w.ip < len(e.instructions): the opcode, its
\* length, its argument when it has one (nil, here -1, otherwise), the
\* call of the callback, and what its answer makes of the walk.  Reading
\* the argument of an opcode cut short by the end of the bytecode is a
\* slice out of range: Go panics.
WalkVisit(code, w, cerr, cret) ==
    LET op    == OpAt(code, w.ip)
        opLen == Length(op)
    IN  IF opLen > 1 /\ w.ip + 3 > Len(code)
        THEN [w EXCEPT !.state = "panicked"]
        ELSE LET v == [offset |-> w.ip, op |-> op,
                       arg |-> IF opLen > 1 THEN Uint16(code, w.ip) ELSE -1,
                       err |-> cerr, ret |-> cret]
             IN  CASE cerr # "nil" ->
                        [state |-> "done", ip |-> w.ip,
                         visits |-> Append(w.visits, v), err |-> cerr]
                   [] ~cret ->
                        [state |-> "done", ip |-> w.ip,
                         visits |-> Append(w.visits, v), err |-> "nil"]
                   [] OTHER ->
                        [state |-> "walking", ip |-> w.ip + opLen,
                         visits |-> Append(w.visits, v), err |-> "nil"]

optVars == << engine, bytecode, constants, pc, optimizing, changed, mathsErr, sz,
             changes, ret, run, first, orig, prev, last, outcome, expr >>

\* ip := 0; ln := len(e.instructions)
WalkBegin ==
    /\ walk.state = "idle"
    /\ walk' = [walk EXCEPT !.state = "walking"]
    /\ UNCHANGED << optVars, retVars, stackVars, strVars >>

\* a turn of `for ip < ln`, the callback answering (cerr, cret)
WalkTurn(cerr, cret) ==
    /\ walk.state = "walking"
    /\ walk.ip < Len(bytecode)
    /\ walk' = WalkVisit(bytecode, walk, cerr, cret)
    /\ UNCHANGED << optVars, retVars, stackVars, strVars >>

\* the loop ends at ip >= ln: return nil
WalkEnd ==
    /\ walk.state = "walking"
    /\ walk.ip >= Len(bytecode)
    /\ walk' = [walk EXCEPT !.state = "done"]
    /\ UNCHANGED << optVars, retVars, stackVars, strVars >>

\* the walker on the compiled programs, with every callback
WalkInit ==
    /\ engine = "eval"
    /\ \E prog \in LoopPrograms : InitWith(Encode(prog, 1), << >>)

WalkNext ==
    \/ WalkBegin
    \/ \E ce \in {"nil", "error"}, cr \in BOOLEAN : WalkTurn(ce, cr)
    \/ WalkEnd

WalkSpec == WalkInit /\ [][WalkNext]_vars

(***************************************************************************)
(* stack.Stack: entries is the slice, its last element the top.            *)
(***************************************************************************)
\* Stack.Empty
Empty(es) == Len(es) = 0

\* Stack.Size
Size(es) == Len(es)

\* Stack.Pop taking a stack of one entry for an empty one
Pop_EmptyAtOne(es) ==
    IF Len(es) <= 1
    THEN [entries |-> es, val |-> Nil, err |-> "error"]
    ELSE [entries |-> SubSeq(es, 1, Len(es) - 1), val |-> es[Len(es)], err |-> "nil"]

\* Stack.Pop taking the oldest entry instead of the newest
Pop_TakesBottom(es) ==
    IF Empty(es)
    THEN [entries |-> es, val |-> Nil, err |-> "error"]
    ELSE [entries |-> SubSeq(es, 2, Len(es)), val |-> es[1], err |-> "nil"]

\* Stack.Pop: the entries it leaves and the (object, error) it returns
Pop(es) ==
    IF Empty(es)
    THEN [entries |-> es, val |-> Nil, err |-> "error"]
    ELSE [entries |-> SubSeq(es, 1, Len(es) - 1), val |-> es[Len(es)], err |-> "nil"]

StackVals == {Integer(0), Integer(2), Bool(TRUE), Null}

\* Inspect of the objects pushed: an Integer prints as `%d`
Inspect(o) ==
    CASE o.t = "int" -> ToString(o.v)
      [] o.t = "bool" -> IF o.v = 1 THEN "true" ELSE "false"
      [] OTHER -> "null"

\* Stack.Export: Inspect of every entry, bottom first (none of the printed
\* forms holds a newline for strings.ReplaceAll to escape)
Export(es) == [k \in 1..Len(es) |-> Inspect(es[k])]

\* a call of method op, Push with the value arg, no result of a query
Called(op, arg) == [op |-> op, arg |-> arg, size |-> 0, empty |-> FALSE, export |-> << >>]

\* stack.New(): a Stack without entries
StackNew ==
    /\ entries' = << >>
    /\ popRet' = Pending
    /\ stackCall' = Called("New", Nil)
    /\ pushed' = 0
    /\ popped' = 0
    /\ UNCHANGED << optVars, retVars, walk, strVars >>

\* s.Push(value)
StackPush(value) ==
    /\ Len(entries) < MaxDepth
    /\ pushed < MaxCalls
    /\ entries' = Append(entries, value)
    /\ popRet' = Pending
    /\ stackCall' = Called("Push", value)
    /\ pushed' = pushed + 1
    /\ UNCHANGED << optVars, retVars, walk, strVars, popped >>

\* s.Pop()
StackPop ==
    /\ entries' = Pop(entries).entries
    /\ popRet' = [val |-> Pop(entries).val, err |-> Pop(entries).err]
    /\ stackCall' = Called("Pop", Nil)
    /\ popped' = IF Pop(entries).err = "nil" THEN popped + 1 ELSE popped
    /\ UNCHANGED << optVars, retVars, walk, strVars, pushed >>

\* s.Clear()
StackClear ==
    /\ entries' = << >>
    /\ popRet' = Pending
    /\ stackCall' = Called("Clear", Nil)
    /\ pushed' = 0
    /\ popped' = 0
    /\ UNCHANGED << optVars, retVars, walk, strVars >>

\* s.Size()
StackSize ==
    /\ popRet' = Pending
    /\ stackCall' = [Called("Size", Nil) EXCEPT !.size = Size(entries)]
    /\ UNCHANGED << optVars, retVars, walk, strVars, entries, pushed, popped >>

\* s.Empty()
StackEmpty ==
    /\ popRet' = Pending
    /\ stackCall' = [Called("Empty", Nil) EXCEPT !.empty = Empty(entries)]
    /\ UNCHANGED << optVars, retVars, walk, strVars, entries, pushed, popped >>

\* s.Export()
StackExport ==
    /\ popRet' = Pending
    /\ stackCall' = [Called("Export", Nil) EXCEPT !.export = Export(entries)]
    /\ UNCHANGED << optVars, retVars, walk, strVars, entries, pushed, popped >>

StackInit ==
    /\ engine = "vm"
    /\ InitWith(<< >>, << >>)

StackNext ==
    \/ StackNew
    \/ \E value \in StackVals : StackPush(value)
    \/ StackPop
    \/ StackClear
    \/ StackSize
    \/ StackEmpty
    \/ StackExport

StackSpec == StackInit /\ [][StackNext]_vars

(***************************************************************************)
(* object.String as an Iterable (object_int.go).  Value is a Go string, a  *)
(* sequence of bytes; Next counts and indexes it by runes.                 *)
(***************************************************************************)
\* bytes of the strings iterated over: 'a', 'b' and the two bytes of U+00E9;
\* 195 without 169 after it, or 169 on its own, is not valid UTF-8
StrBytes == {97, 98, 195, 169}
Strings == UNION {[1..n -> StrBytes] : n \in 0..MaxBytes}

RuneError == 65533

\* Go's decoding of the first rune of a non-empty string, for one- and
\* two-byte sequences: the rune and its width; a byte that starts no valid
\* sequence is RuneError of width 1
DecodeRune(b) ==
    IF b[1] < 128 THEN [r |-> b[1], w |-> 1]
    ELSE IF b[1] \in 194..223 /\ Len(b) >= 2 /\ b[2] \in 128..191
         THEN [r |-> (b[1] - 192) * 64 + (b[2] - 128), w |-> 2]
         ELSE [r |-> RuneError, w |-> 1]

\* []rune(s)
RECURSIVE Runes(_)
Runes(b) ==
    IF b = << >> THEN << >>
    ELSE << DecodeRune(b).r >> \o Runes(SubSeq(b, DecodeRune(b).w + 1, Len(b)))

\* utf8.RuneCountInString(s)
RuneCountInString(b) == Len(Runes(b))

\* string(r) for a rune r: its UTF-8 encoding
EncodeRune(r) ==
    IF r < 128 THEN << r >>
    ELSE IF r < 2048 THEN << 192 + (r \div 64), 128 + (r % 64) >>
    ELSE << 224 + (r \div 4096), 128 + ((r \div 64) % 64), 128 + (r % 64) >>

\* &String{Value: v}
String(v) == [t |-> "string", v |-> v]

\* s.Reset()
String_Reset(s) == [s EXCEPT !.offset = 0]

\* String_Next handing back the offset after the step as the index
String_Next_IndexFromOne(s) ==
    IF s.offset < RuneCountInString(s.Value)
    THEN [s    |-> [s EXCEPT !.offset = @ + 1],
          val  |-> String(EncodeRune(Runes(s.Value)[s.offset + 1])),
          idx  |-> Integer(s.offset + 1),
          more |-> TRUE]
    ELSE [s |-> s, val |-> Nil, idx |-> Integer(0), more |-> FALSE]

\* s.Next(): the String after the call and the three values returned
String_Next(s) ==
    IF s.offset < RuneCountInString(s.Value)
    THEN [s    |-> [s EXCEPT !.offset = @ + 1],
          val  |-> String(EncodeRune(Runes(s.Value)[s.offset + 1])),
          idx  |-> Integer(s.offset),
          more |-> TRUE]
    ELSE [s |-> s, val |-> Nil, idx |-> Integer(0), more |-> FALSE]

\* a new String: the offset is the zero value
StringNew(v) ==
    /\ str' = [Value |-> v, offset |-> 0]
    /\ nextRet' = << >>
    /\ UNCHANGED << optVars, retVars, walk, stackVars, loopVars >>

\* a call of s.Reset()
StringReset ==
    /\ Len(nextRet) < MaxCalls
    /\ str' = String_Reset(str)
    /\ nextRet' = Append(nextRet, [call |-> "Reset", val |-> Nil, idx |-> Nil,
                                   more |-> FALSE, offset |-> str'.offset])
    /\ UNCHANGED << optVars, retVars, walk, stackVars, loopVars >>

\* a call of s.Next()
StringNext ==
    /\ Len(nextRet) < MaxCalls
    /\ str' = String_Next(str).s
    /\ nextRet' = Append(nextRet, [call |-> "Next", val |-> String_Next(str).val,
                                   idx |-> String_Next(str).idx,
                                   more |-> String_Next(str).more,
                                   offset |-> str'.offset])
    /\ UNCHANGED << optVars, retVars, walk, stackVars, loopVars >>

StringInit ==
    /\ engine = "vm"
    /\ InitWith(<< >>, << >>)

StringStep ==
    \/ \E v \in Strings : StringNew(v)
    \/ StringReset
    \/ StringNext

StringSpec == StringInit /\ [][StringStep]_vars

(***************************************************************************)
(* Two foreach loops over object.String values.  A loop calls Reset when   *)
(* it is entered and Next before each turn until has_more is false.  The   *)
(* offset is a field of the String: two loops on one String read and write *)
(* the same field, each statement of Reset and Next being one step.        *)
(***************************************************************************)
Loops == {"a", "b"}
Other(i) == IF i = "a" THEN "b" ELSE "a"

\* the Strings walked
LoopValues == {<< 97 >>, << 97, 98 >>, << 195, 169, 97 >>}

\* ForeachStep entering the loop without a call of Reset
ForeachStep_NoReset(l, s) ==
    LET n == RuneCountInString(s.Value)
    IN  CASE l.pc = "enter" ->
               [l |-> [l EXCEPT !.pc = "test", !.seen = << >>], s |-> s]
          [] l.pc = "test" ->
               [l |-> [l EXCEPT !.pc = IF s.offset < n THEN "load" ELSE "done"], s |-> s]
          [] l.pc = "load" ->
               [l |-> [l EXCEPT !.pc = "store", !.tmp = s.offset], s |-> s]
          [] l.pc = "store" ->
               [l |-> [l EXCEPT !.pc = "index"], s |-> [s EXCEPT !.offset = l.tmp + 1]]
          [] l.pc = "index" ->
               IF s.offset - 1 \in 0..(n - 1)
               THEN [l |-> [l EXCEPT !.pc = "key",
                                     !.val = String(EncodeRune(Runes(s.Value)[s.offset]))],
                     s |-> s]
               ELSE [l |-> [l EXCEPT !.pc = "panic"], s |-> s]
          [] l.pc = "key" ->
               [l |-> [l EXCEPT !.pc = "test",
                                !.seen = Append(@, [val |-> l.val,
                                                    idx |-> Integer(s.offset - 1)])],
                s |-> s]

\* One step of loop l on the String s it walks: the loop and the String after
\* it.  "enter": s.Reset().  Then s.Next(), statement by statement: "test",
\* `s.offset < utf8.RuneCountInString(s.Value)` (false: has_more = false,
\* the loop is done); "load" and "store", `s.offset++`; "index",
\* `chars[s.offset-1]`, a run-time panic when out of range; "key",
\* `int64(s.offset - 1)` and the return to the loop.
ForeachStep(l, s) ==
    LET n == RuneCountInString(s.Value)
    IN  CASE l.pc = "enter" ->
               [l |-> [l EXCEPT !.pc = "test", !.seen = << >>], s |-> String_Reset(s)]
          [] l.pc = "test" ->
               [l |-> [l EXCEPT !.pc = IF s.offset < n THEN "load" ELSE "done"], s |-> s]
          [] l.pc = "load" ->
               [l |-> [l EXCEPT !.pc = "store", !.tmp = s.offset], s |-> s]
          [] l.pc = "store" ->
               [l |-> [l EXCEPT !.pc = "index"], s |-> [s EXCEPT !.offset = l.tmp + 1]]
          [] l.pc = "index" ->
               IF s.offset - 1 \in 0..(n - 1)
               THEN [l |-> [l EXCEPT !.pc = "key",
                                     !.val = String(EncodeRune(Runes(s.Value)[s.offset]))],
                     s |-> s]
               ELSE [l |-> [l EXCEPT !.pc = "panic"], s |-> s]
          [] l.pc = "key" ->
               [l |-> [l EXCEPT !.pc = "test",
                                !.seen = Append(@, [val |-> l.val,
                                                    idx |-> Integer(s.offset - 1)])],
                s |-> s]

\* two Strings, each left at some offset by an earlier walk, and two loops
\* about to be entered: loop "a" on the first String, loop "b" on String ob
ForeachNew(v1, v2, o1, o2, ob) ==
    /\ \A i \in Loops : loops[i].pc = "idle"
    /\ o1 <= RuneCountInString(v1)
    /\ o2 <= RuneCountInString(v2)
    /\ strs' = << [Value |-> v1, offset |-> o1], [Value |-> v2, offset |-> o2] >>
    /\ loops' = [i \in Loops |->
                    [obj |-> IF i = "a" THEN 1 ELSE ob, pc |-> "enter", tmp |-> 0,
                     val |-> Nil, seen |-> << >>]]
    /\ UNCHANGED << optVars, retVars, walk, stackVars, str, nextRet >>

\* loop i takes its next step
ForeachTurn(i) ==
    /\ loops[i].pc \in {"enter", "test", "load", "store", "index", "key"}
    /\ Len(loops[i].seen) < MaxCalls
    /\ loops' = [loops EXCEPT ![i] = ForeachStep(loops[i], strs[loops[i].obj]).l]
    /\ strs' = [strs EXCEPT ![loops[i].obj] = ForeachStep(loops[i], strs[loops[i].obj]).s]
    /\ UNCHANGED << optVars, retVars, walk, stackVars, str, nextRet >>

ForeachInit ==
    /\ engine = "vm"
    /\ InitWith(<< >>, << >>)

ForeachNext ==
    \/ \E v1, v2 \in LoopValues, o1, o2 \in 0..MaxBytes, ob \in 1..2 :
          ForeachNew(v1, v2, o1, o2, ob)
    \/ \E i \in Loops : ForeachTurn(i)

ForeachSpec == ForeachInit /\ [][ForeachNext]_vars

\* Prepare, then Execute and Run on the prepared machine, for the scripts
\* with an if/else.
RunInit == \E prog \in IfPrograms : InitWith(Encode(prog, 1), << >>)

RunNext ==
    \/ \E opt \in BOOLEAN : Prepare(opt)
    \/ CallMaths
    \/ LoopMaths
    \/ CallJumps
    \/ LoopJumps
    \/ CallRemoveNOPs
    \/ CallRemoveDeadCode
    \/ \E host \in Hosts : Execute(host)
    \/ \E host \in Hosts : RunFilter(host)

RunSpec == RunInit /\ [][RunNext]_vars

\* The optimizer on the arithmetic expressions and on the if/else scripts.
FoldInit == ArithInit \/ RunInit

FoldSpec == FoldInit /\ [][OptimizerNext]_vars

\* The optimizer is sequential code: whenever a step is possible it is taken.
FairSpec == LoopInit /\ [][OptimizerNext]_vars /\ WF_vars(OptimizerNext)


(***************************************************************************)
(* Vocabulary of the properties.                                           *)
(***************************************************************************)
IsJump(op) == op \in {OpJump, OpJumpIfFalse}

\* offsets of the jump instructions of a program, in walk order
JumpOffsets(code) == SelectSeq(WalkBytecode(code), LAMBDA off : IsJump(OpAt(code, off)))

\* their arguments, in walk order
JumpArgs(code) == [i \in 1..Len(JumpOffsets(code)) |-> Uint16(code, JumpOffsets(code)[i])]

\* every jump argument is the offset of the first byte of an instruction
JumpsAligned(code) ==
    \A i \in 1..Len(JumpArgs(code)) : JumpArgs(code)[i] \in Starts(code)

\* every jump argument is such an offset or the length of the bytecode
JumpsAlignedOrEnd(code) ==
    \A i \in 1..Len(JumpArgs(code)) : JumpArgs(code)[i] \in Starts(code) \cup {Len(code)}

HasNop(code) == \E off \in Starts(code) : OpAt(code, off) = OpNop

\* bytes of the instructions other than OpNop that start before offset t:
\* the offset, once the OpNops are gone, of the first instruction other than
\* OpNop at or after t
RECURSIVE LiveFrom(_, _, _)
LiveFrom(code, ip, t) ==
    IF ip >= Len(code) \/ ip >= t THEN 0
    ELSE (IF OpAt(code, ip) = OpNop THEN 0 ELSE Length(OpAt(code, ip)))
             + LiveFrom(code, ip + Length(OpAt(code, ip)), t)

LiveBefore(code, t) == LiveFrom(code, 0, t)

\* a pass was called and ended without an error or a panic
PassDone == last # "none" /\ ~(last = "maths" /\ mathsErr # "none")

SameOutcome(before, after) ==
    \A h \in Hosts : Exec(before, constants, h) = Exec(after, constants, h)

(***************************************************************************)
(* C1: for a program whose jumps land on instruction starts, the program a *)
(* pass leaves has the same outcome (value returned, or error) on every    *)
(* host object as the program the pass was given, unless the pass ended on *)
(* a division by zero.                                                     *)
(***************************************************************************)
C1_PassPreservesOutcome ==
    (PassDone /\ JumpsAligned(prev)) => SameOutcome(prev, bytecode)

(***************************************************************************)
(* C2: if every jump argument is the offset of an instruction before a     *)
(* pass, every jump argument is the offset of an instruction after it.     *)
(***************************************************************************)
C2_JumpsStayAligned ==
    (last # "none" /\ JumpsAligned(prev)) => JumpsAligned(bytecode)

\* C2 as amended: if before a pass every jump argument is the offset of an
\* instruction or the length of the bytecode, so it is after the pass.
C2_JumpsStayAlignedOrEnd ==
    (last # "none" /\ JumpsAlignedOrEnd(prev)) => JumpsAlignedOrEnd(bytecode)

\* removeNOPs took the OpNop instructions a jump targeted off the end of a
\* program with aligned jumps: the jump now names the length of the bytecode
C2_Witness ==
    /\ last = "nops"
    /\ JumpsAligned(prev)
    /\ bytecode # prev
    /\ \E i \in 1..Len(JumpArgs(bytecode)) : JumpArgs(bytecode)[i] = Len(bytecode)
    /\ JumpsAlignedOrEnd(bytecode)

(***************************************************************************)
(* C3: after removeNOPs the bytecode has no OpNop instruction.             *)
(***************************************************************************)
C3_NoNopAfterElision == (last = "nops") => ~HasNop(bytecode)

\* C3 as amended: no OpNop is left when every jump argument of the input is
\* the offset of an instruction of the input (Eval.removeNOPs: always).
C3_NoNopAfterElisionOfAligned ==
    (last = "nops" /\ (engine = "eval" \/ JumpsAligned(prev))) => ~HasNop(bytecode)

C3_Witness ==
    /\ last = "nops"
    /\ engine = "vm"
    /\ JumpsAligned(prev)
    /\ Len(JumpArgs(prev)) > 0
    /\ HasNop(prev)
    /\ ~HasNop(bytecode)

(***************************************************************************)
(* C4: removeNOPs sends the argument t of every jump, when t is the offset *)
(* of an instruction (OpNop or not), to the new offset of the first        *)
(* instruction other than OpNop at or after t.                             *)
(***************************************************************************)
JumpsRewritten(before, after) ==
    /\ Len(JumpArgs(after)) = Len(JumpArgs(before))
    /\ \A i \in 1..Len(JumpArgs(before)) :
          JumpArgs(before)[i] \in Starts(before)
              => JumpArgs(after)[i] = LiveBefore(before, JumpArgs(before)[i])

C4_JumpsRetargeted == (last = "nops") => JumpsRewritten(prev, bytecode)

\* C4 as amended: so it is whenever every jump argument of the input is the
\* offset of an instruction; otherwise VM.removeNOPs rewrites nothing.
C4_JumpsRetargetedOfAligned ==
    (last = "nops" /\ (engine = "eval" \/ JumpsAligned(prev)))
        => JumpsRewritten(prev, bytecode)

\* removeNOPs moved a jump that targeted an OpNop followed by a live
\* instruction onto that instruction
C4_Witness ==
    /\ last = "nops"
    /\ \E i \in 1..Len(JumpArgs(prev)) :
          LET t == JumpArgs(prev)[i]
          IN  /\ t \in Starts(prev)
              /\ OpAt(prev, t) = OpNop
              /\ t + 1 \in Starts(prev)
              /\ OpAt(prev, t + 1) # OpNop
              /\ JumpArgs(bytecode)[i] # t
              /\ JumpArgs(bytecode)[i] = LiveBefore(prev, t + 1)
              /\ JumpArgs(bytecode)[i] \in Starts(bytecode)
              /\ OpAt(bytecode, JumpArgs(bytecode)[i]) = OpAt(prev, t + 1)


(***************************************************************************)
(* C5: the optimizer is idempotent: a second run of the whole optimizer on *)
(* the bytecode the first run left leaves it byte for byte the same.       *)
(***************************************************************************)
C5_Idempotent == (pc = "ready" /\ run = 2) => bytecode = first

(***************************************************************************)
(* C9: the optimizer terminates: once it has begun, the maths loop and the *)
(* jumps loop each end and the optimizer gets to its end.                  *)
(***************************************************************************)
C9_OptimizerReturns == (pc \in {"maths", "jumps"}) ~> (pc \in {"ready", "panicked"})


(***************************************************************************)
(* C6: with the optimizer on, a division by a constant zero met by the     *)
(* folding pass is reported by Prepare: Prepare does not hand back a       *)
(* machine without an error, leaving the division to fail at run time.     *)
(***************************************************************************)
C6_DivZeroReportedAtPrepare ==
    (pc = "ready" /\ optimizing /\ run = 1) => mathsErr = "none"

(***************************************************************************)
(* C7: the optimizer turns the postfix program of an arithmetic expression *)
(* followed by OpReturn, when no divisor is zero and every intermediate    *)
(* result is in 0..65534, into `OpPush r; OpReturn`, r the expression's    *)
(* value.                                                                  *)
(***************************************************************************)
\* the value of an expression, division truncating; -1 when a divisor is
\* zero or an intermediate result is outside 0..65534
RECURSIVE Value(_)
Value(e) ==
    IF e[1] = OpPush THEN e[2]
    ELSE LET l == Value(e[2])
             r == Value(e[3])
         IN  IF l < 0 \/ r < 0 \/ (e[1] = OpDiv /\ r = 0) THEN -1
             ELSE LET v == CASE e[1] = OpAdd -> l + r
                             [] e[1] = OpSub -> l - r
                             [] e[1] = OpMul -> l * r
                             [] e[1] = OpDiv -> l \div r
                  IN  IF v >= 0 /\ v <= 65534 THEN v ELSE -1

C7_FoldsToOnePush ==
    (pc = "ready" /\ optimizing /\ expr # << >> /\ Value(expr) >= 0)
        => bytecode = << OpPush, Value(expr) \div 256, Value(expr) % 256, OpReturn >>

\* an expression of two operators, the second operand itself an operation,
\* folded to one push
C7_Witness ==
    /\ pc = "ready"
    /\ optimizing
    /\ expr # << >>
    /\ Len(expr) = 3
    /\ Len(expr[3]) = 3
    /\ Value(expr) > 256
    /\ bytecode = << OpPush, Value(expr) \div 256, Value(expr) % 256, OpReturn >>

(***************************************************************************)
(* C8: removeDeadCode leaves the bytecode as it is when a jump comes       *)
(* before the first OpReturn or there is no OpReturn, and otherwise leaves *)
(* exactly the bytes up to and including the first OpReturn.               *)
(***************************************************************************)
ReturnOffsets(code) == {off \in Starts(code) : OpAt(code, off) = OpReturn}

FirstReturn(code) ==
    CHOOSE off \in ReturnOffsets(code) : \A o \in ReturnOffsets(code) : off <= o

JumpBeforeFirstReturn(code) ==
    \E off \in Starts(code) : IsJump(OpAt(code, off)) /\ off < FirstReturn(code)

C8_DeadCodeTruncation ==
    (last = "dead") =>
        IF ReturnOffsets(prev) = {} \/ JumpBeforeFirstReturn(prev)
        THEN bytecode = prev
        ELSE bytecode = SubSeq(prev, 1, FirstReturn(prev) + 1)

\* jump-free code after a return was cut off
C8_WitnessTruncated ==
    /\ last = "dead"
    /\ ReturnOffsets(prev) # {}
    /\ ~JumpBeforeFirstReturn(prev)
    /\ Len(bytecode) < Len(prev)

(***************************************************************************)
(* C10: optimization leaves the constants list alone, and an instruction   *)
(* that names a constant by index and survives a pass keeps its argument;  *)
(* only constant folding rewrites OpPush arguments and only NOP elision    *)
(* rewrites jump arguments.                                                *)
(***************************************************************************)
IndexOps == {OpConstant, OpLookup, OpSet, OpCall}

\* << opcode, argument >> of the instructions with an opcode in ops, in walk
\* order
ArgInstrs(code, ops) ==
    LET offs == SelectSeq(WalkBytecode(code), LAMBDA off : OpAt(code, off) \in ops)
    IN  [i \in 1..Len(offs) |-> << OpAt(code, offs[i]), Uint16(code, offs[i]) >>]

PushArgs(code) ==
    LET offs == SelectSeq(WalkBytecode(code), LAMBDA off : OpAt(code, off) = OpPush)
    IN  [i \in 1..Len(offs) |-> Uint16(code, offs[i])]

\* a is what is left of b after some of its elements are dropped
RECURSIVE IsSubseq(_, _)
IsSubseq(a, b) ==
    IF a = << >> THEN TRUE
    ELSE IF b = << >> THEN FALSE
    ELSE IF Head(a) = Head(b) THEN IsSubseq(Tail(a), Tail(b))
    ELSE IsSubseq(a, Tail(b))

C10_ConstantIndicesStable ==
    /\ constants = Constants
    /\ (last # "none") =>
          /\ IsSubseq(ArgInstrs(bytecode, IndexOps), ArgInstrs(prev, IndexOps))
          /\ (last # "maths") => IsSubseq(PushArgs(bytecode), PushArgs(prev))
          /\ (last # "nops") => IsSubseq(JumpArgs(bytecode), JumpArgs(prev))

\* NOP elision moved an instruction that names a constant and rewrote a jump
C10_Witness ==
    /\ last = "nops"
    /\ bytecode # prev
    /\ Len(ArgInstrs(prev, IndexOps)) > 0
    /\ ArgInstrs(bytecode, IndexOps) = ArgInstrs(prev, IndexOps)
    /\ JumpArgs(bytecode) # JumpArgs(prev)
    /\ LET offs == SelectSeq(WalkBytecode(prev), LAMBDA off : OpAt(prev, off) \in IndexOps)
       IN  offs[1] \notin Starts(bytecode) \/ OpAt(bytecode, offs[1]) \notin IndexOps

(***************************************************************************)
(* C11: when the machine reports no error, Execute returns the machine's   *)
(* value and Run the truthiness of that value; when the machine reports an *)
(* error, Execute returns a Null value with the error and Run returns      *)
(* false with the error, never true.                                       *)
(***************************************************************************)
C11_RunFollowsExecute ==
    /\ outcome.kind = "value" =>
          /\ execRet = [val |-> outcome.val, err |-> "nil"]
          /\ runRet.err # "pending" =>
                runRet = [ok |-> outcome.val.t # "void" /\ outcome.val.v > 0,
                          err |-> "nil"]
    /\ outcome.kind = "error" =>
          /\ execRet = [val |-> Null, err |-> "error"]
          /\ runRet.err # "pending" => runRet = [ok |-> FALSE, err |-> "error"]

\* Run was called on a program that fails at run time
C11_Witness ==
    /\ outcome.kind = "error"
    /\ execRet.val = Null
    /\ runRet = [ok |-> FALSE, err |-> "error"]

(***************************************************************************)
(* C12: WalkBytecode calls the visitor once per instruction, from offset 0 *)
(* on, each offset the one before plus the length of the opcode there,     *)
(* with the 16-bit argument of a three-byte opcode and none for a one-byte *)
(* opcode; after an answer with an error or with continue = false it makes *)
(* no further call, and returns the error if there is one; it never        *)
(* changes the bytecode.                                                   *)
(***************************************************************************)
C12_WalkerVisitsInOrder ==
    LET vs == walk.visits
        n  == Len(vs)
    IN  /\ bytecode = orig
        /\ \A i \in 1..n :
              /\ vs[i].offset = IF i = 1 THEN 0
                                ELSE vs[i - 1].offset + Length(vs[i - 1].op)
              /\ i > 1 => vs[i].offset > vs[i - 1].offset
              /\ vs[i].op = bytecode[vs[i].offset + 1]
              /\ vs[i].arg = IF Length(vs[i].op) = 3
                             THEN bytecode[vs[i].offset + 2] * 256
                                      + bytecode[vs[i].offset + 3]
                             ELSE -1
              /\ i < n => (vs[i].err = "nil" /\ vs[i].ret)
        /\ walk.state = "done" =>
              /\ walk.err = IF n > 0 THEN vs[n].err ELSE "nil"
              /\ (n = 0 \/ (vs[n].err = "nil" /\ vs[n].ret)) =>
                    (IF n = 0 THEN 0 ELSE vs[n].offset + Length(vs[n].op))
                        = Len(bytecode)

\* the visitor stopped the walk at the second of three instructions, one of
\* them with an argument, and the walker returned its error
C12_Witness ==
    /\ walk.state = "done"
    /\ walk.err = "error"
    /\ Len(walk.visits) = 2
    /\ walk.visits[1].arg >= 0
    /\ walk.visits[2].offset = 3
    /\ Len(bytecode) > 4

(***************************************************************************)
(* C13: after any sequence of New, Push, Pop and Clear, Pop on an empty    *)
(* stack returns an error and no value and leaves the stack empty, and Pop *)
(* on a stack that is not empty returns no error.                          *)
(***************************************************************************)
C13_PopErrorOnlyWhenEmpty ==
    /\ [](popRet.err = "error" => (popRet.val = Nil /\ entries = << >>))
    /\ [][popRet'.err # "pending" =>
             IF entries = << >>
             THEN popRet' = [val |-> Nil, err |-> "error"] /\ entries' = << >>
             ELSE popRet'.err = "nil"]_stackVars

\* Pop was called on an empty stack: an error, no value, the stack still empty
C13_Witness ==
    /\ popRet = [val |-> Nil, err |-> "error"]
    /\ entries = << >>

(***************************************************************************)
(* C14: when constant folding folds `OpPush x; OpPush y; op`, op one of    *)
(* OpAdd, OpSub, OpMul, OpDiv and only OpNop between the three, the        *)
(* argument of the first OpPush becomes x op y (division truncating), the  *)
(* second OpPush and the operator become OpNop, and no other byte changes. *)
(***************************************************************************)
\* code[from], ..., code[to-1] are all OpNop
OnlyNops(code, from, to) == \A i \in from..(to - 1) : code[i + 1] = OpNop

\* the pushes at or before offset o with only OpNop between them and o
PushesBefore(code, S, o) ==
    {p \in S : p < o /\ code[p + 1] = OpPush /\ OnlyNops(code, p + 3, o)}

\* << p1, p2, o >>: an operator of ops at o with the pushes at p1 and p2 the
\* last two before it, only OpNop between the three
Candidates(code, ops) ==
    LET S  == Starts(code)
        os == {o \in S : code[o + 1] \in ops}
    IN  UNION {UNION {{<< p1, p2, o >> : p1 \in PushesBefore(code, S, p2)}
                         : p2 \in PushesBefore(code, S, o)} : o \in os}

\* the candidate that the call of optimizeMaths which turned `before` into
\* `after` folded: its operator is OpNop in `after`
FoldSites(before, after) ==
    {f \in Candidates(before, ArithOps) : after[f[3] + 1] = OpNop}

ArithResult(op, x, y) ==
    CASE op = OpAdd -> x + y
      [] op = OpSub -> x - y
      [] op = OpMul -> x * y
      [] op = OpDiv -> x \div y

\* `before` with the push at keep given the argument r, the push at wipe and
\* the operator at o made OpNop
FoldedInto(before, keep, wipe, o, r) ==
    [i \in 1..Len(before) |->
        CASE i - 1 = keep + 1 -> r \div 256
          [] i - 1 = keep + 2 -> r % 256
          [] i - 1 \in wipe..(wipe + 2) -> OpNop
          [] i - 1 = o -> OpNop
          [] OTHER -> before[i]]

FoldValue(before, p1, p2, o) ==
    ArithResult(before[o + 1], before[p1 + 2] * 256 + before[p1 + 3],
                before[p2 + 2] * 256 + before[p2 + 3])

Rejected(code) ==
    {f \in Candidates(code, ArithOps) :
        /\ ~(code[f[3] + 1] = OpDiv /\ code[f[2] + 2] * 256 + code[f[2] + 3] = 0)
        /\ (FoldValue(code, f[1], f[2], f[3]) < 0
               \/ FoldValue(code, f[1], f[2], f[3]) > 65534)}

\* the offsets of the bytes a pass changed
ChangedAt(before, after) == {i \in 0..(Len(before) - 1) : before[i + 1] # after[i + 1]}

\* no opcode other than OpPush and OpNop that the pass left in place has
\* bytes changed by the pass both before it and after it
NoFoldAcross(before, after) ==
    \A r \in Starts(before) :
        (before[r + 1] \notin {OpPush, OpNop} /\ after[r + 1] = before[r + 1]) =>
            ~(/\ \E i \in ChangedAt(before, after) : i < r
              /\ \E j \in ChangedAt(before, after) : j > r)

C15_RejectedFoldResetsWindow ==
    (last = "maths" /\ Len(bytecode) = Len(prev)) =>
        /\ \A f \in Rejected(prev) :
              \A i \in (f[1]..(f[1] + 2)) \cup (f[2]..(f[2] + 2)) \cup {f[3]} :
                  bytecode[i + 1] = prev[i + 1]
        /\ NoFoldAcross(prev, bytecode)

\* a walk met an operator whose result it did not accept, then a push and
\* a second operator, and folded nothing: the pushes before the first
\* operator were no longer in the window
C15_Witness ==
    /\ last = "maths"
    /\ bytecode = prev
    /\ \E f \in Rejected(prev) :
          /\ f[3] + 4 \in Starts(prev)
          /\ prev[f[3] + 2] = OpPush
          /\ prev[f[3] + 5] \in {OpAdd, OpMul}

(***************************************************************************)
(* C16: on OpEqual or OpNotEqual with two constant pushes in the window,   *)
(* optimizeMaths makes both pushes OpNop (three bytes each) and the        *)
(* comparison OpTrue when it holds of the two integers (equal for OpEqual, *)
(* different for OpNotEqual), OpFalse when it does not.                    *)
(***************************************************************************)
\* `before` with the pushes at p1 and p2 made OpNop and the byte b at o
ComparedInto(before, p1, p2, o, b) ==
    [i \in 1..Len(before) |->
        CASE i - 1 \in p1..(p1 + 2) -> OpNop
          [] i - 1 \in p2..(p2 + 2) -> OpNop
          [] i - 1 = o -> b
          [] OTHER -> before[i]]

\* OpTrue or OpFalse: what the comparison at o makes of the integers pushed
\* at p1 and p2
Verdict(before, p1, p2, o) ==
    LET x == before[p1 + 2] * 256 + before[p1 + 3]
        y == before[p2 + 2] * 256 + before[p2 + 3]
    IN  IF (before[o + 1] = OpEqual /\ x = y) \/ (before[o + 1] = OpNotEqual /\ x # y)
        THEN OpTrue ELSE OpFalse

C16_ComparisonFolded ==
    (last = "maths" /\ mathsErr = "none") =>
        LET cs == Candidates(prev, {OpEqual, OpNotEqual})
        IN  /\ \A f \in cs :
                  bytecode[f[3] + 1] # prev[f[3] + 1] =>
                      bytecode = ComparedInto(prev, f[1], f[2], f[3],
                                              Verdict(prev, f[1], f[2], f[3]))
            /\ (cs # {} /\ Candidates(prev, ArithOps) = {}) => bytecode # prev

\* OpNotEqual on two different constants became OpTrue
C16_Witness ==
    /\ last = "maths"
    /\ \E f \in Candidates(prev, {OpNotEqual}) :
          /\ prev[f[1] + 3] # prev[f[2] + 3]
          /\ bytecode = ComparedInto(prev, f[1], f[2], f[3], OpTrue)

(***************************************************************************)
(* C17: an OpJumpIfFalse whose previously walked instruction is OpTrue: *)
(* optimizeJumps makes the OpTrue and the three bytes of the jump OpNop    *)
(* and changes no other byte; with no OpJumpIfFalse that follows an OpTrue *)
(* or an OpFalse, it changes nothing.                                      *)
(***************************************************************************)
\* offsets of the OpJumpIfFalse instructions whose previously walked
\* instruction is one of ops (one-byte opcodes)
JumpsAfter(code, ops) ==
    {o \in Starts(code) :
        /\ code[o + 1] = OpJumpIfFalse
        /\ o >= 1 /\ (o - 1) \in Starts(code)
        /\ code[o] \in ops}

Least(S) == CHOOSE x \in S : \A y \in S : x <= y

C17_NeverTakenBranchWiped ==
    (last = "jumps") =>
        LET pairs == JumpsAfter(prev, {OpTrue, OpFalse})
        IN  IF pairs = {} THEN bytecode = prev /\ ~changed
            ELSE LET o == Least(pairs)
                 IN  prev[o] = OpTrue =>
                        /\ changed
                        /\ bytecode = [i \in 1..Len(prev) |->
                                          IF i - 1 \in (o - 1)..(o + 2) THEN OpNop
                                          ELSE prev[i]]

\* `OpTrue; OpJumpIfFalse` became four OpNop next to an instruction that was kept
C17_Witness ==
    /\ last = "jumps"
    /\ changed
    /\ \E o \in JumpsAfter(prev, {OpTrue}) :
          /\ \A i \in (o - 1)..(o + 2) : bytecode[i + 1] = OpNop
          /\ \E i \in 1..Len(prev) : bytecode[i] = prev[i] /\ prev[i] # OpNop

(***************************************************************************)
(* C18: an OpJumpIfFalse with target T whose previously walked instruction *)
(* is OpFalse: optimizeJumps makes the OpFalse, the jump and every byte up *)
(* to T (T not included) OpNop and leaves every byte from T on as it was;  *)
(* no jump is left where the OpJumpIfFalse was.                            *)
(***************************************************************************)
C18_AlwaysTakenBranchWiped ==
    (last = "jumps") =>
        LET pairs == JumpsAfter(prev, {OpTrue, OpFalse})
        IN  (pairs # {} /\ prev[Least(pairs)] = OpFalse) =>
                LET o == Least(pairs)
                    T == prev[o + 2] * 256 + prev[o + 3]
                IN  /\ \A i \in (o - 1)..(o + 2) : bytecode[i + 1] = OpNop
                    /\ \A i \in (o + 3)..(T - 1) : bytecode[i + 1] = OpNop
                    /\ \A i \in 0..(Len(prev) - 1) :
                          (i < o - 1 \/ (i >= T /\ i > o + 2)) =>
                              bytecode[i + 1] = prev[i + 1]
                    /\ bytecode[o + 1] \notin {OpJump, OpJumpIfFalse}

(***************************************************************************)
(* C19: when some OpJump/OpJumpIfFalse names a target without an entry in  *)
(* the map from old to new offsets (the length of the bytecode, or an      *)
(* offset inside an instruction), removeNOPs leaves the bytecode byte for  *)
(* byte as it was.                                                         *)
(***************************************************************************)
\* some jump of the program names an offset the first loop never walked
UnmappedTarget(code) ==
    \E i \in 1..Len(JumpArgs(code)) : JumpArgs(code)[i] \notin Starts(code)

C19_UnmappedTargetAborts ==
    (last = "nops" /\ UnmappedTarget(prev)) => bytecode = prev

(***************************************************************************)
(* C20: after Reset on a String of n code points the k-th call of Next     *)
(* (1 <= k <= n) returns the k-th code point as a one-character String,    *)
(* the Integer k-1 and has_more = TRUE; every further call returns         *)
(* has_more = FALSE and leaves the offset as it was; after another Reset   *)
(* the same sequence comes again from the start.                           *)
(***************************************************************************)
\* the calls from j+1 to j+k are all calls of Next
NextRun(j, k) == \A i \in (j + 1)..(j + k) : nextRet[i].call = "Next"

\* the bytes of the Strings returned by the calls j+1 .. j+k, joined
RECURSIVE Joined(_, _)
Joined(j, k) ==
    IF k = 0 THEN << >> ELSE Joined(j, k - 1) \o nextRet[j + k].val.v

WellFormed(b) == \A i \in 1..Len(Runes(b)) : Runes(b)[i] # RuneError

C20_IterationAfterReset ==
    \A j \in 1..Len(nextRet) :
        nextRet[j].call = "Reset" =>
            \A k \in 1..(Len(nextRet) - j) :
                NextRun(j, k) =>
                    LET e == nextRet[j + k]
                        n == Len(Runes(str.Value))
                    IN  IF k <= n
                        THEN /\ e.val = String(EncodeRune(Runes(str.Value)[k]))
                             /\ e.idx = Integer(k - 1)
                             /\ e.more
                             /\ (k = n /\ WellFormed(str.Value)) =>
                                    Joined(j, n) = str.Value
                        ELSE /\ ~e.more
                             /\ e.offset = nextRet[j + k - 1].offset

\* a String with a two-byte code point walked to its end after a Reset, asked
\* once more, Reset again and walked from the start
C20_Witness ==
    /\ Len(nextRet) = 6
    /\ Len(Runes(str.Value)) = 2
    /\ Len(str.Value) = 3
    /\ nextRet[1].call = "Reset"
    /\ NextRun(1, 3)
    /\ nextRet[2].more /\ nextRet[3].more /\ ~nextRet[4].more
    /\ nextRet[5].call = "Reset"
    /\ nextRet[6].call = "Next" /\ nextRet[6].more
    /\ nextRet[6].val = nextRet[2].val

(***************************************************************************)
(* C21: the iteration offset is a field of the String value.  Two loops    *)
(* that walk distinct Strings each see every character once, in order;     *)
(* two loops interleaved on the same String share the offset, and a loop   *)
(* can miss or repeat characters.                                          *)
(***************************************************************************)
\* what a loop alone on the String s is handed: every character, in order
FullWalk(s) ==
    [k \in 1..Len(Runes(s.Value)) |->
        [val |-> String(EncodeRune(Runes(s.Value)[k])), idx |-> Integer(k - 1)]]

\* the indexes a loop was handed
SeenIdx(i) == {loops[i].seen[k].idx.v : k \in 1..Len(loops[i].seen)}

C21_DistinctValuesSeeAll ==
    \A i \in Loops :
        loops[i].obj # loops[Other(i)].obj =>
            /\ loops[i].pc # "panic"
            /\ loops[i].pc = "done" => loops[i].seen = FullWalk(strs[loops[i].obj])
            /\ \A k \in 1..Len(loops[i].seen) :
                  loops[i].seen[k] = FullWalk(strs[loops[i].obj])[k]

\* two loops on one String, both done: "a" was handed the first character
\* twice and never the second, "b" never the first
C21_Witness ==
    /\ loops["a"].obj = loops["b"].obj
    /\ loops["a"].pc = "done" /\ loops["b"].pc = "done"
    /\ Len(Runes(strs[1].Value)) = 2
    /\ Len(loops["a"].seen) = 2
    /\ loops["a"].seen[1] = loops["a"].seen[2]
    /\ 1 \notin SeenIdx("a")
    /\ 0 \notin SeenIdx("b")

(***************************************************************************)
(* C22: a Stack holds, in push order, the values pushed since the last     *)
(* Clear and not yet popped.  Push adds its value on top, a Pop that       *)
(* succeeds returns the top and removes only it, Clear removes all; Size   *)
(* is the pushes minus the successful pops since the last Clear, Empty     *)
(* holds exactly when that is 0; Size, Empty and Export leave the entries  *)
(* as they were.                                                           *)
(***************************************************************************)
C22_StackIsLifo ==
    /\ [](/\ Size(entries) = pushed - popped
          /\ stackCall.op = "Size" => stackCall.size = pushed - popped
          /\ stackCall.op = "Empty" => (stackCall.empty <=> (pushed - popped = 0)))
    /\ [][/\ stackCall'.op = "Push" => entries' = Append(entries, stackCall'.arg)
          /\ (stackCall'.op = "Pop" /\ popRet'.err = "nil") =>
                /\ entries # << >>
                /\ popRet'.val = entries[Len(entries)]
                /\ entries' = SubSeq(entries, 1, Len(entries) - 1)
          /\ (stackCall'.op = "Pop" /\ popRet'.err # "nil") => entries' = entries
          /\ stackCall'.op = "Clear" => entries' = << >>
          /\ stackCall'.op \in {"Size", "Empty", "Export"} => entries' = entries
      ]_stackVars

\* after Push 0, Push 2 and a Pop, the Pop returned the 2 and left the 0
C22_Witness ==
    /\ stackCall.op = "Pop"
    /\ popRet = [val |-> Integer(2), err |-> "nil"]
    /\ entries = << Integer(0) >>
    /\ pushed = 2
    /\ popped = 1

(***************************************************************************)
(* C23: optimizeBytecode returns the length of the bytecode before it ran  *)
(* minus the length after; the value is never negative, and it is 0        *)
(* exactly when the bytecode is as it was before.                          *)
(***************************************************************************)
\* the bytecode the last run of the optimizer was handed
Handed == IF run = 1 THEN orig ELSE first

\* VM.optimizeBytecode has returned
OptimizerReturned == engine = "vm" /\ pc = "ready" /\ optimizing

C23_ReturnsBytesRemoved ==
    OptimizerReturned =>
        /\ ret = Len(Handed) - Len(bytecode)
        /\ ret >= 0
        /\ (ret = 0) <=> (bytecode = Handed)

====
